---- MODULE Spec2Model ----
(***************************************************************************)
(* A model of the run orchestration engine of the automated game player:   *)
(*   - ErrorHandler (src/src/errorHandler.js): retryWithBackoff,            *)
(*     withTimeout, handleError, shouldContinue, safeExecute;               *)
(*   - GamePlayer and Scheduler (src/unnamed/part_001).                     *)
(*                                                                         *)
(* Environment assumption: a log file that could be created by the Logger  *)
(* constructor stays writable, so Logger.log does not throw during a run   *)
(* (Logger.screenshot and Logger.finalize catch their own errors).         *)
(***************************************************************************)
EXTENDS Integers, Sequences, FiniteSets, TLC

VARIABLES
    \* ---- classifier harness (SpecClassify)
    clsMsg,        \* the error message handed to shouldContinue
    clsFlag,       \* config.errorHandling.continueOnMinorErrors
    clsOut,        \* "none" before the call, then "continue" / "abort"
    \* ---- guard harness (SpecGuard)
    gCfg,          \* [maxRetries, continueOnMinorErrors] of the ErrorHandler
    gCall,         \* [entry, maxRetries, script]: the call made and the operation's behaviour
    guard,         \* the state of one guard invocation (see IdleGuard)
    \* ---- scheduler and session runner (Spec)
    config,        \* the configuration object shared by all components
    env,           \* what the browser may do: [errors, evidence], the errors
                   \* its calls may throw and how many console events it emits
    isRunning,     \* Scheduler.isRunning
    cronJob,       \* Scheduler.cronJob: 0 is null, otherwise a job id
    liveJobs,      \* the cron jobs registered with node-cron and not destroyed
    runs,          \* run id -> the GamePlayer of that accepted runGame call
    lastCall,      \* the Scheduler call made by the last step and what it
                   \* returned; NoCall when the last step was not such a call
    exitCode       \* <<>> while the process runs, <<c>> once process.exit(c) ran

clsVars   == <<clsMsg, clsFlag, clsOut>>
guardVars == <<gCfg, gCall, guard>>
schedVars == <<config, env, isRunning, cronJob, liveJobs, runs, lastCall, exitCode>>
vars      == <<clsVars, guardVars, schedVars>>

-----------------------------------------------------------------------------
(* Bounds of the model *)

MaxMsgLen == 3        \* longest error message, in fragments, fed to shouldContinue
MaxRetries == 2       \* largest maxRetries (configured or passed) that is explored
MaxScenarios == 2     \* largest config.game.maxScenarios that is explored
MaxEvidence == 2      \* most console events of one run that reach gameStats
MaxRuns == 2          \* most GamePlayers one Scheduler constructs
MaxJobs == 2          \* most cron jobs registered at the same time
MaxRounds == 4        \* largest maxScenarios explored round by round (SpecRounds)

-----------------------------------------------------------------------------
(* Error messages.  A message is a sequence of text fragments; a pattern   *)
(* /p/i is a sequence of lower-case fragments, and it matches a message    *)
(* when it occurs in it as a contiguous run of fragments, ignoring case.   *)

Fragments ==
    {"Page", "crashed", "Browser", "disconnected", "TIMEOUT", "timed", "out", "misc"}

Lower(f) ==
    CASE f = "Page"        -> "page"
      [] f = "Browser"     -> "browser"
      [] f = "TIMEOUT"     -> "timeout"
      [] f = "Timeout"     -> "timeout"
      [] f = "Navigation"  -> "navigation"
      [] f = "Operation"   -> "operation"
      [] f = "Navigate"    -> "navigate"
      [] f = "Protocol"    -> "protocol"
      [] f = "Failed"      -> "failed"
      [] f = "net::ERR_"   -> "net::err_"
      [] OTHER             -> f

LowerMsg(m) == [i \in 1..Len(m) |-> Lower(m[i])]

Contains(m, p) ==
    \E i \in 0..(Len(m) - Len(p)) : \A j \in 1..Len(p) : m[i + j] = p[j]

\* RegExp.prototype.test for a case-insensitive literal pattern
Test(pattern, message) == Contains(LowerMsg(message), pattern)

MinorErrorPatterns ==
    { <<"waiting", "for", "selector">>,
      <<"element", "not", "found">>,
      <<"timeout">>,
      <<"timed", "out">>,
      <<"navigation", "failed">>,
      <<"navigating", "frame", "was", "detached">>,
      <<"net::err_">> }

FatalErrorPatterns ==
    { <<"browser", "disconnected">>,
      <<"page", "crashed">>,
      <<"out", "of", "memory">>,
      <<"cannot", "launch", "browser">> }

IsFatal(message) == \E p \in FatalErrorPatterns : Test(p, message)

IsMinor(message) == \E p \in MinorErrorPatterns : Test(p, message)

\* Mutants of shouldContinue used to validate the classifier claims.
ShouldContinue_MinorFirst(continueOnMinorErrors, message) ==
    IF ~continueOnMinorErrors THEN FALSE
    ELSE IF IsMinor(message) THEN TRUE
    ELSE IF IsFatal(message) THEN FALSE
    ELSE FALSE

ShouldContinue_UnknownContinues(continueOnMinorErrors, message) ==
    IF ~continueOnMinorErrors THEN FALSE
    ELSE IF IsFatal(message) THEN FALSE
    ELSE TRUE

ShouldContinue_IgnoresFlag(continueOnMinorErrors, message) ==
    IF IsFatal(message) THEN FALSE
    ELSE IF IsMinor(message) THEN TRUE
    ELSE FALSE

\* ErrorHandler.shouldContinue: TRUE is Continue, FALSE is Abort
ShouldContinue(continueOnMinorErrors, message) ==
    IF ~continueOnMinorErrors THEN FALSE
    ELSE IF IsFatal(message) THEN FALSE
    ELSE IF IsMinor(message) THEN TRUE
    ELSE FALSE

-----------------------------------------------------------------------------
(* The Execution Guard: ErrorHandler.retryWithBackoff, withTimeout,        *)
(* handleError and safeExecute.  One guard record is the state of one call *)
(* of safeExecute(operation, context) or of retryWithBackoff(operation,    *)
(* context, maxRetries).  An argument that was not supplied is <<>>, a      *)
(* supplied number n is <<n>>.                                             *)

Values == { <<"v1">>, <<"v2">> }                   \* what an operation may return

MinorError   == <<"Navigation", "TIMEOUT">>         \* matches /timeout/i
FatalError   == <<"Page", "crashed">>               \* matches /page crashed/i
UnknownError == <<"Protocol", "error">>             \* matches no pattern
OperationErrors == { MinorError, FatalError, UnknownError }

\* `Operation timed out after ${timeout}ms: ${context}`
TimeoutError == <<"Operation", "timed", "out", "Navigate", "to", "game">>

Outcomes ==
    { [ok |-> TRUE, val |-> v] : v \in Values } \cup
    { [ok |-> FALSE, val |-> e] : e \in OperationErrors }

NoResult == [kind |-> "none", val |-> <<>>]

IdleGuard ==
    [ entry       |-> "none",
      phase       |-> "idle",     \* idle, attempt, sleep, returned, threw
      retries     |-> 0,          \* the local `retries`
      attempt     |-> 0,          \* the loop variable
      invocations |-> 0,          \* calls of operation() made so far
      sleeps      |-> 0,          \* calls of this.sleep(retryDelay) made so far
      outcomes    |-> <<>>,       \* how each settled attempt ended
      lastError   |-> <<>>,
      loop        |-> NoResult,   \* what retryWithBackoff returned or threw
      timer       |-> "off",      \* withTimeout's timer: off, armed, fired
      race        |-> NoResult,   \* how Promise.race settled
      result      |-> NoResult,   \* what the entry point gave its caller
      late        |-> 0 ]         \* invocations started after that result

\* const retries = maxRetries || this.config.maxRetries
EffectiveRetries(maxRetries, configured) ==
    IF maxRetries = <<>> THEN configured
    ELSE IF maxRetries[1] = 0 THEN configured
    ELSE maxRetries[1]

\* The synchronous start of the guard: retryWithBackoff runs up to the first
\* `await operation()`; under safeExecute, withTimeout then arms its timer.
GuardStart(entry, maxRetries, configured) ==
    [ IdleGuard EXCEPT
        !.entry       = entry,
        !.phase       = "attempt",
        !.retries     = EffectiveRetries(maxRetries, configured),
        !.attempt     = 1,
        !.invocations = 1,
        !.timer       = IF entry = "safeExecute" THEN "armed" ELSE "off" ]

\* retryWithBackoff settled with (kind, val).  Called directly, that is the
\* caller's result.  Under safeExecute it settles the race unless the timer
\* already did; a value is returned at once, an error goes to handleError.
LoopSettles(g, kind, val) ==
    LET g1 == [g EXCEPT !.loop = [kind |-> kind, val |-> val]] IN
    IF g.entry = "retryWithBackoff"
    THEN [g1 EXCEPT !.result = [kind |-> kind, val |-> val]]
    ELSE IF g.race.kind # "none" THEN g1
    ELSE IF kind = "value"
    THEN [g1 EXCEPT !.race = [kind |-> "value", val |-> val],
                    !.result = [kind |-> "value", val |-> val]]
    ELSE [g1 EXCEPT !.race = [kind |-> "raised", val |-> val]]

\* `return result` (line 20)
AttemptSucceeds(g, v) ==
    LoopSettles([g EXCEPT !.phase = "returned",
                          !.outcomes = Append(@, [ok |-> TRUE, val |-> v])],
                "value", v)

AttemptFails_SleepsAfterLast(g, e) ==
    LET g1 == [g EXCEPT !.lastError = e,
                        !.sleeps = @ + 1,
                        !.outcomes = Append(@, [ok |-> FALSE, val |-> e])] IN
    IF g.attempt <= g.retries
    THEN [g1 EXCEPT !.phase = "sleep"]
    ELSE LoopSettles([g1 EXCEPT !.phase = "threw"], "raised", g1.lastError)

\* the catch block (lines 21-34) and, after the last attempt, lines 37-40
AttemptFails(g, e) ==
    LET g1 == [g EXCEPT !.lastError = e,
                        !.outcomes = Append(@, [ok |-> FALSE, val |-> e])] IN
    IF g.attempt <= g.retries
    THEN [g1 EXCEPT !.phase = "sleep", !.sleeps = @ + 1]
    ELSE LoopSettles([g1 EXCEPT !.phase = "threw"], "raised", g1.lastError)

AttemptSettles(g, outcome) ==
    IF outcome.ok THEN AttemptSucceeds(g, outcome.val)
    ELSE AttemptFails(g, outcome.val)

\* the sleep is over: attempt++ and the next `await operation()`
SleepDone(g) ==
    [g EXCEPT !.phase       = "attempt",
              !.attempt     = @ + 1,
              !.invocations = @ + 1,
              !.late        = IF g.result.kind # "none" THEN @ + 1 ELSE @]

\* withTimeout's timer rejects the race; the retry loop is not cancelled
TimerFires(g) ==
    [g EXCEPT !.timer = "fired",
              !.race  = [kind |-> "raised", val |-> TimeoutError]]

TimerCanFire(g) == g.timer = "armed" /\ g.race.kind = "none"

\* safeExecute's catch block: handleError, then rethrow or return null
Handling(g) ==
    g.entry = "safeExecute" /\ g.race.kind = "raised" /\ g.result.kind = "none"

HandleErrorDone(g, continueOnMinorErrors) ==
    [g EXCEPT !.result =
        IF ShouldContinue(continueOnMinorErrors, g.race.val)
        THEN [kind |-> "null", val |-> <<>>]
        ELSE [kind |-> "raised", val |-> g.race.val]]

-----------------------------------------------------------------------------
(* The Session Runner: GamePlayer.  A run record is one GamePlayer with    *)
(* the position of its playGame call.                                      *)

NavValue == <<"true">>        \* the navigation operation returns true

\* line 13: `this.choiceIndex = 0`
InitialChoiceIndex_FromEarlierRun ==
    IF runs = <<>> THEN 0 ELSE runs[Len(runs)].choiceIndex

InitialChoiceIndex == 0

\* GamePlayer's constructor, and the history kept of the run
NewGamePlayer ==
    [ pc                    |-> "new",
      caller                |-> "runGame", \* who awaits playGame: runGame, or
                                           \* index.js's runManual ("manualMode")
      browser               |-> FALSE,    \* this.browser is set
      page                  |-> FALSE,    \* this.page is set
      scenarioCount         |-> 0,
      choiceIndex           |-> InitialChoiceIndex,
      gameStats             |-> 0,        \* gameStats.length
      actualScenariosPlayed |-> 0,        \* playScenarios' local counter
      success               |-> FALSE,    \* playGame's local
      nav                   |-> IdleGuard,
      verdict               |-> "none",   \* what playGame returned
      launches              |-> 0,        \* calls of puppeteer.launch
      initError             |-> <<>>,     \* the error init caught, if any
      wakeError             |-> <<>>,     \* the error startGame caught, if any
      roundSteps            |-> 0,        \* interactions attempted in rounds
      clickThrew            |-> FALSE,    \* a click of some round threw
      unrecovered           |-> FALSE,    \* a click's error left playScenarios
      choices               |-> <<>>,     \* direction and x (percent of width) per round
      statsAtRoundStart     |-> 0,        \* gameStats.length when the round began
      verified              |-> <<>>,     \* per completed round: counted or not
      grew                  |-> <<>>,     \* per completed round: gameStats.length
                                          \* at the comparison exceeded the one
                                          \* at the beginning of the round
      pageClose             |-> "none",   \* page.close(): none, pending, ok, threw
      browserClose          |-> "none",   \* browser.close(): likewise
      finalized             |-> 0,        \* calls of logger.finalize
      returned              |-> <<>> ]    \* <<v>> once playGame returned v

\* playGame's start: init() up to `await puppeteer.launch(...)`
StartPlayGame(run) == [run EXCEPT !.pc = "launch", !.launches = @ + 1]

\* line 392, `return success`: the value playGame hands to its caller, as
\* the record of what it carries
PlayGameReturn(success) == [success |-> success]

\* cleanup's catch block falls through to its finally block (lines 350-354)
Finalize_NoFlushAfterThrow(run) ==
    [run EXCEPT !.pc = "done",
                !.finalized = IF "threw" \in {run.pageClose, run.browserClose}
                              THEN @ ELSE @ + 1,
                !.verdict = IF run.success THEN "true" ELSE "false",
                !.returned = << PlayGameReturn(run.success) >>]

\* cleanup's finally, then playGame's `return success`
Finalize(run) ==
    [run EXCEPT !.pc = "done",
                !.finalized = @ + 1,
                !.verdict = IF run.success THEN "true" ELSE "false",
                !.returned = << PlayGameReturn(run.success) >>]

\* cleanup() up to its first pending close
Cleanup(run) ==
    IF run.page THEN [run EXCEPT !.pc = "closePage", !.pageClose = "pending"]
    ELSE IF run.browser
    THEN [run EXCEPT !.pc = "closeBrowser", !.browserClose = "pending"]
    ELSE Finalize(run)

\* playGame's catch and finally: the error is logged, success stays false
Abort(run) == Cleanup(run)

\* init's catch block returns false and playGame throws (lines 48-51 and
\* 362-364): the error is recorded and the run aborts
InitFailed_RetriesWhenMinor(run, e) ==
    IF ShouldContinue(config.continueOnMinorErrors, e)
    THEN [run EXCEPT !.pc = "launch", !.launches = @ + 1, !.browser = FALSE]
    ELSE Abort([run EXCEPT !.initError = e])

InitFailed(run, e) == Abort([run EXCEPT !.initError = e])

\* what startGame returns when its try block ended with error e (<<>>: it
\* did not throw): lines 86 and 91
StartGameResult_FatalAborts(e) == ~IsFatal(e)

StartGameResult(e) == TRUE

\* page.click('body') of a round threw (line 167 or 190): the error leaves
\* playScenarios and is caught by playGame (lines 386-390)
ClickFailed_GoesOn(run) ==
    [run EXCEPT !.clickThrew = TRUE, !.unrecovered = TRUE, !.pc = "check"]

ClickFailed(run) == Abort([run EXCEPT !.clickThrew = TRUE, !.unrecovered = TRUE])

\* navigateToGame: `safeExecute(...) !== null`
NavigateToGameResult_NotUndefined(result) == TRUE

NavigateToGameResult_NullIsSuccess(result) == result.kind # "raised"

NavigateToGameResult(result) == result.kind # "null"

DetermineChoice_OffByOne(strategy, pattern, choiceIndex) ==
    CASE strategy = "random"  -> {"left", "right"}
      [] strategy = "pattern" ->
            IF Len(pattern) = 0 THEN {"undefined"}
            ELSE { pattern[((choiceIndex + 1) % Len(pattern)) + 1] }
      [] strategy = "left"    -> {"left"}
      [] strategy = "right"   -> {"right"}
      [] OTHER                -> {"left"}

\* GamePlayer.determineChoice: the directions it may return
DetermineChoice(strategy, pattern, choiceIndex) ==
    CASE strategy = "random"  -> {"left", "right"}
      [] strategy = "pattern" ->
            IF Len(pattern) = 0 THEN {"undefined"}
            ELSE { pattern[(choiceIndex % Len(pattern)) + 1] }
      [] strategy = "left"    -> {"left"}
      [] strategy = "right"   -> {"right"}
      [] OTHER                -> {"left"}

\* the x coordinate clicked, in percent of viewport.width
ClickX(choiceDirection) == IF choiceDirection = "left" THEN 25 ELSE 75

\* the beginning of one iteration of playScenarios' loop
BeginRound(run) ==
    [run EXCEPT !.pc = "advance",
                !.scenarioCount = @ + 1,
                !.statsAtRoundStart = run.gameStats]

\* startGame returned true: playScenarios starts
BeginScenarios(run, maxScenarios) ==
    IF maxScenarios > 0 THEN BeginRound(run)
    ELSE Cleanup([run EXCEPT !.success = TRUE])

\* what playGame does once the navigation guard has given its result
AfterNavigation(run) ==
    CASE run.nav.result.kind = "none"   -> run
      [] run.nav.result.kind = "raised" -> Abort(run)
      [] OTHER ->
            IF NavigateToGameResult(run.nav.result)
            THEN [run EXCEPT !.pc = "wake"]
            ELSE Abort(run)

CheckRound_NeverCounts(run) ==
    [run EXCEPT !.pc = "settle",
                !.verified = Append(@, FALSE),
                !.grew = Append(@, run.gameStats > run.statsAtRoundStart),
                !.choiceIndex = @ + 1]

CheckRound_StopsWhenUnverified(run) ==
    LET counted == run.gameStats > run.actualScenariosPlayed
        checked == [run EXCEPT
                      !.actualScenariosPlayed = IF counted THEN @ + 1 ELSE @,
                      !.verified = Append(@, counted),
                      !.grew = Append(@, run.gameStats > run.statsAtRoundStart),
                      !.choiceIndex = @ + 1] IN
    IF counted THEN [checked EXCEPT !.pc = "settle"] ELSE Abort(checked)

CheckRound_CountsWithoutEvidence(run) ==
    LET counted == run.gameStats >= run.actualScenariosPlayed IN
    [run EXCEPT !.pc = "settle",
                !.actualScenariosPlayed = IF counted THEN @ + 1 ELSE @,
                !.verified = Append(@, counted),
                !.grew = Append(@, run.gameStats > run.statsAtRoundStart),
                !.choiceIndex = @ + 1]

\* the comparison at lines 198-204, choiceIndex++ and the 2 s wait
CheckRound(run) ==
    LET counted == run.gameStats > run.actualScenariosPlayed IN
    [run EXCEPT !.pc = "settle",
                !.actualScenariosPlayed = IF counted THEN @ + 1 ELSE @,
                !.verified = Append(@, counted),
                !.grew = Append(@, run.gameStats > run.statsAtRoundStart),
                !.choiceIndex = @ + 1]

-----------------------------------------------------------------------------
(* Each specification below exercises one component; the variables of the   *)
(* other components then stay at these values.                             *)

NoCall == [op |-> "none", ret |-> "none", how |-> "none"]

SchedIdle ==
    /\ config = [maxRetries |-> 0, continueOnMinorErrors |-> FALSE,
                 maxScenarios |-> 0, strategy |-> "left", pattern |-> <<>>,
                 enabled |-> FALSE]
    /\ env = [errors |-> {}, evidence |-> 0]
    /\ isRunning = FALSE
    /\ cronJob = 0
    /\ liveJobs = {}
    /\ runs = <<>>
    /\ lastCall = NoCall
    /\ exitCode = <<>>

GuardIdle ==
    /\ gCfg = [maxRetries |-> 0, continueOnMinorErrors |-> FALSE]
    /\ gCall = [entry |-> "none", maxRetries |-> <<>>, script |-> <<>>]
    /\ guard = IdleGuard

ClsIdle ==
    /\ clsMsg = <<>>
    /\ clsFlag = FALSE
    /\ clsOut = "none"

-----------------------------------------------------------------------------
(* The Run Coordinator (Scheduler) and the steps of a run.  A step is what *)
(* runs between two suspension points of the single-threaded event loop.   *)

RunIds == DOMAIN runs

InProgress(r) == runs[r].pc \notin {"done", "retired"}

\* line 436: `if (this.isRunning)`
RunGameBusy_Never == FALSE

RunGameBusy == isRunning

\* line 441: `this.isRunning = true`
IsRunningOnAccept == TRUE

\* lines 436-439: the flag after a call that found a run in progress
IsRunningOnSkip_ResetByFinally == FALSE

IsRunningOnSkip == isRunning

\* lines 458-460: the finally block, on the route "returned" (playGame gave
\* a verdict) and on the route "threw" (the catch block ran)
IsRunningOnExit_OnlyOnReturn(route) == route # "returned"

IsRunningOnExit(route) == FALSE

\* line 408: `if (!this.config.schedule.enabled)`
StartDisabled_Never == FALSE

StartDisabled == ~config.enabled

\* lines 427-433: stop() does not assign isRunning
IsRunningOnStop_Cleared == FALSE

IsRunningOnStop == isRunning

\* the configurations a Scheduler is explored under: scheduling enabled
\* with continueOnMinorErrors on, and scheduling disabled with it off
Configs ==
    { c \in [ maxRetries            : {1},
              continueOnMinorErrors : BOOLEAN,
              maxScenarios          : {1},
              strategy              : {"pattern"},
              pattern               : { <<"left", "right">> },
              enabled               : BOOLEAN ] :
        c.enabled = c.continueOnMinorErrors }

\* the configurations a single run is explored under
RunConfigs ==
    [ maxRetries            : 0..1,
      continueOnMinorErrors : BOOLEAN,
      maxScenarios          : 1..MaxScenarios,
      strategy              : {"pattern"},
      pattern               : { <<"left", "right">> },
      enabled               : {FALSE} ]

Init ==
    /\ config \in Configs
    /\ env = [errors |-> {MinorError}, evidence |-> 1]
    /\ isRunning = FALSE
    /\ cronJob = 0
    /\ liveJobs = {}
    /\ runs = <<>>
    /\ lastCall = NoCall
    /\ exitCode = <<>>
    /\ ClsIdle
    /\ GuardIdle

\* Scheduler.start
Start ==
    /\ IF StartDisabled
       THEN /\ lastCall' = [op |-> "start", ret |-> "false", how |-> "disabled"]
            /\ UNCHANGED <<cronJob, liveJobs>>
       ELSE /\ Cardinality(liveJobs) < MaxJobs
            /\ LET job == CHOOSE j \in 1..MaxJobs : j \notin liveJobs IN
               /\ cronJob' = job
               /\ liveJobs' = liveJobs \cup {job}
            /\ lastCall' = [op |-> "start", ret |-> "true", how |-> "scheduled"]
    /\ UNCHANGED <<config, env, exitCode, isRunning, runs, clsVars, guardVars>>

\* Scheduler.stop
Stop ==
    /\ IF cronJob # 0
       THEN /\ liveJobs' = liveJobs \ {cronJob}
            /\ cronJob' = 0
       ELSE UNCHANGED <<cronJob, liveJobs>>
    /\ lastCall' = [op |-> "stop", ret |-> "none", how |-> "none"]
    /\ isRunning' = IsRunningOnStop
    /\ UNCHANGED <<config, env, exitCode, runs, clsVars, guardVars>>

\* Once runGame is called again, the GamePlayer of an earlier call whose
\* playGame has returned ("done") is referenced by nothing but the closure of
\* a navigation retry loop that is still going: the rest of its state is
\* discarded ("retired").
Retire(run) ==
    IF run.pc \notin {"done", "retired"} THEN run
    ELSE [NewGamePlayer EXCEPT
            !.pc = "retired",
            !.nav = IF run.nav.phase \in {"attempt", "sleep"}
                    THEN run.nav ELSE IdleGuard]

\* Scheduler.runGame up to its first suspension.  ctorThrows: `new
\* GamePlayer(config)` throws (the Logger cannot create its directories or
\* its log file); then the catch and finally blocks run at once.
RunGame(op, ctorThrows) ==
    /\ IF RunGameBusy
       THEN /\ lastCall' = [op |-> op, ret |-> "false", how |-> "skipped"]
            /\ isRunning' = IsRunningOnSkip
            /\ UNCHANGED runs
       ELSE IF ctorThrows
       THEN /\ lastCall' = [op |-> op, ret |-> "false", how |-> "threw"]
            /\ isRunning' = IsRunningOnExit("threw")
            /\ UNCHANGED runs
       ELSE /\ Len(runs) < MaxRuns
            /\ lastCall' = [op |-> op, ret |-> "pending", how |-> "accepted"]
            /\ isRunning' = IsRunningOnAccept
            /\ runs' = Append([i \in DOMAIN runs |-> Retire(runs[i])],
                              StartPlayGame(NewGamePlayer))
    /\ UNCHANGED <<config, env, exitCode, cronJob, liveJobs, clsVars, guardVars>>

\* a registered cron job fires its callback
CronFires == \E j \in liveJobs, ctorThrows \in BOOLEAN : RunGame("cron", ctorThrows)

\* a manual request that started a GamePlayer without going through runGame
RunManual_BypassesRunGame ==
    /\ Len(runs) < MaxRuns
    /\ lastCall' = [op |-> "manual", ret |-> "pending", how |-> "accepted"]
    /\ runs' = Append([i \in DOMAIN runs |-> Retire(runs[i])],
                      StartPlayGame(NewGamePlayer))
    /\ UNCHANGED <<config, env, exitCode, isRunning, cronJob, liveJobs, clsVars, guardVars>>

\* Scheduler.runManual
RunManual == \E ctorThrows \in BOOLEAN : RunGame("manual", ctorThrows)

\* index.js runManual, line 109: `process.exit(success ? 0 : 1)`
ExitStatus_AlwaysZero(success) == 0

ExitStatus(success) == IF success THEN 0 ELSE 1

\* One step of run r ends in record `next`.  When that ends playGame, its
\* caller resumes in the same turn: runGame logs, returns the verdict and
\* runs its finally block; index.js's runManual logs and exits the process.
\* A process that has exited takes no step.
Step(r, next) ==
    /\ runs' = [runs EXCEPT ![r] = IF runs[r].pc = "retired" THEN Retire(next)
                                   ELSE next]
    /\ isRunning' = IF next.pc = "done" /\ runs[r].pc # "done"
                    THEN IsRunningOnExit("returned")
                    ELSE isRunning
    /\ lastCall' = NoCall
    /\ exitCode = <<>>
    /\ exitCode' = IF next.pc = "done" /\ runs[r].pc # "done"
                       /\ next.caller = "manualMode"
                    THEN << ExitStatus(next.success) >>
                    ELSE exitCode
    /\ UNCHANGED <<config, env, cronJob, liveJobs, clsVars, guardVars>>

\* init: puppeteer.launch settles
Launch(r) ==
    /\ runs[r].pc = "launch"
    /\ \/ Step(r, [runs[r] EXCEPT !.pc = "newPage", !.browser = TRUE])
       \/ \E e \in env.errors : Step(r, InitFailed(runs[r], e))

\* init: browser.newPage settles; on success navigateToGame starts the guard
NewPage(r) ==
    /\ runs[r].pc = "newPage"
    /\ \/ Step(r, [runs[r] EXCEPT
                     !.pc = "nav",
                     !.page = TRUE,
                     !.nav = GuardStart("safeExecute", <<>>, config.maxRetries)])
       \/ \E e \in env.errors : Step(r, InitFailed(runs[r], e))

PageOpen(run) == run.page /\ run.pageClose \in {"none", "pending"}

\* a console message that analyzeConsoleMessage pushes onto gameStats
ConsoleEvent(r) ==
    /\ PageOpen(runs[r])
    /\ runs[r].pc # "done"
    /\ runs[r].gameStats < env.evidence
    /\ Step(r, [runs[r] EXCEPT !.gameStats = @ + 1])

\* an attempt of the navigation operation settles (page.goto and the
\* screenshot); once the page is being closed it can only fail
NavAttemptSettles(r) ==
    /\ runs[r].nav.phase = "attempt"
    /\ \E o \in { [ok |-> TRUE, val |-> NavValue] } \cup
                { [ok |-> FALSE, val |-> e] : e \in env.errors } :
        /\ o.ok => runs[r].pageClose = "none"
        /\ Step(r, LET run == [runs[r] EXCEPT !.nav = AttemptSettles(@, o)] IN
                   IF runs[r].pc = "nav" THEN AfterNavigation(run) ELSE run)

NavSleepDone(r) ==
    /\ runs[r].nav.phase = "sleep"
    /\ Step(r, [runs[r] EXCEPT !.nav = SleepDone(@)])

NavTimerFires(r) ==
    /\ TimerCanFire(runs[r].nav)
    /\ Step(r, [runs[r] EXCEPT !.nav = TimerFires(@)])

NavHandleError(r) ==
    /\ Handling(runs[r].nav)
    /\ Step(r, AfterNavigation(
                 [runs[r] EXCEPT
                    !.nav = HandleErrorDone(@, config.continueOnMinorErrors)]))

\* startGame: the click on body settles; an error is caught and logged
StartGame(r) ==
    /\ runs[r].pc = "wake"
    /\ \E e \in { <<>> } \cup env.errors :
        LET run == [runs[r] EXCEPT !.wakeError = e] IN
        Step(r, IF StartGameResult(e)
                THEN BeginScenarios(run, config.maxScenarios)
                ELSE Abort(run))

\* playScenarios: the advancing click on body settles
Advance(r) ==
    /\ runs[r].pc = "advance"
    /\ LET run == [runs[r] EXCEPT !.roundSteps = @ + 1] IN
       \/ Step(r, [run EXCEPT !.pc = "choose"])
       \/ Step(r, ClickFailed(run))

\* playScenarios: determineChoice and the directional click
Choose(r) ==
    /\ runs[r].pc = "choose"
    /\ \E d \in DetermineChoice(config.strategy, config.pattern,
                                runs[r].choiceIndex) :
        LET run == [runs[r] EXCEPT
                      !.roundSteps = @ + 1,
                      !.choices = Append(@, [dir |-> d, x |-> ClickX(d)])] IN
        \/ Step(r, [run EXCEPT !.pc = "check"])
        \/ Step(r, [run EXCEPT !.pc = "fallback", !.clickThrew = TRUE])

\* playScenarios: the fallback click on body after a failed directional click
Fallback(r) ==
    /\ runs[r].pc = "fallback"
    /\ LET run == [runs[r] EXCEPT !.roundSteps = @ + 1] IN
       \/ Step(r, [run EXCEPT !.pc = "check"])
       \/ Step(r, ClickFailed(run))

\* playScenarios: after the 3 s wait, the comparison of the counts
Check(r) ==
    /\ runs[r].pc = "check"
    /\ Step(r, CheckRound(runs[r]))

\* playScenarios: after the 2 s wait, the next round or the end of the loop
Settle(r) ==
    /\ runs[r].pc = "settle"
    /\ Step(r, IF runs[r].scenarioCount < config.maxScenarios
               THEN BeginRound(runs[r])
               ELSE Cleanup([runs[r] EXCEPT !.success = TRUE]))

\* cleanup: page.close settles; if it throws, browser.close is skipped
ClosePage(r) ==
    /\ runs[r].pc = "closePage"
    /\ \/ Step(r, [runs[r] EXCEPT !.pc = "closeBrowser",
                                  !.pageClose = "ok",
                                  !.browserClose = "pending"])
       \/ Step(r, Finalize([runs[r] EXCEPT !.pageClose = "threw"]))

\* cleanup: browser.close settles
CloseBrowser(r) ==
    /\ runs[r].pc = "closeBrowser"
    /\ \E how \in {"ok", "threw"} :
        Step(r, Finalize([runs[r] EXCEPT !.browserClose = how]))

Next ==
    \/ Start
    \/ Stop
    \/ CronFires
    \/ RunManual
    \/ \E r \in RunIds : Launch(r)
    \/ \E r \in RunIds : NewPage(r)
    \/ \E r \in RunIds : ConsoleEvent(r)
    \/ \E r \in RunIds : NavAttemptSettles(r)
    \/ \E r \in RunIds : NavSleepDone(r)
    \/ \E r \in RunIds : NavTimerFires(r)
    \/ \E r \in RunIds : NavHandleError(r)
    \/ \E r \in RunIds : StartGame(r)
    \/ \E r \in RunIds : Advance(r)
    \/ \E r \in RunIds : Choose(r)
    \/ \E r \in RunIds : Fallback(r)
    \/ \E r \in RunIds : Check(r)
    \/ \E r \in RunIds : Settle(r)
    \/ \E r \in RunIds : ClosePage(r)
    \/ \E r \in RunIds : CloseBrowser(r)

Spec == Init /\ [][Next]_vars

-----------------------------------------------------------------------------
(* SpecRun: one run, requested manually, under every run configuration.    *)

InitRun ==
    /\ config \in RunConfigs
    /\ env = [errors |-> OperationErrors, evidence |-> MaxEvidence]
    /\ isRunning = FALSE
    /\ cronJob = 0
    /\ liveJobs = {}
    /\ runs = <<>>
    /\ lastCall = NoCall
    /\ exitCode = <<>>
    /\ ClsIdle
    /\ GuardIdle

NextRun ==
    \/ runs = <<>> /\ RunManual
    \/ \E r \in RunIds : Launch(r)
    \/ \E r \in RunIds : NewPage(r)
    \/ \E r \in RunIds : ConsoleEvent(r)
    \/ \E r \in RunIds : NavAttemptSettles(r)
    \/ \E r \in RunIds : NavSleepDone(r)
    \/ \E r \in RunIds : NavTimerFires(r)
    \/ \E r \in RunIds : NavHandleError(r)
    \/ \E r \in RunIds : StartGame(r)
    \/ \E r \in RunIds : Advance(r)
    \/ \E r \in RunIds : Choose(r)
    \/ \E r \in RunIds : Fallback(r)
    \/ \E r \in RunIds : Check(r)
    \/ \E r \in RunIds : Settle(r)
    \/ \E r \in RunIds : ClosePage(r)
    \/ \E r \in RunIds : CloseBrowser(r)

SpecRun == InitRun /\ [][NextRun]_vars

-----------------------------------------------------------------------------
(* SpecManual: the program started in manual mode (`node index.js           *)
(* --manual`).  index.js's runManual constructs a GamePlayer itself and     *)
(* awaits its playGame; no Scheduler exists in that process, so isRunning   *)
(* stands for a guard nobody holds.                                        *)

\* index.js runManual up to `await gamePlayer.playGame()`.  When `new
\* GamePlayer(config)` throws, main's catch handler exits with code 1.
ManualMode ==
    /\ runs = <<>>
    /\ exitCode = <<>>
    /\ \E ctorThrows \in BOOLEAN :
        IF ctorThrows
        THEN /\ lastCall' = [op |-> "manualMode", ret |-> "exit1", how |-> "threw"]
             /\ exitCode' = << 1 >>
             /\ UNCHANGED runs
        ELSE /\ lastCall' = [op |-> "manualMode", ret |-> "pending", how |-> "accepted"]
             /\ exitCode' = exitCode
             /\ runs' = << StartPlayGame([NewGamePlayer EXCEPT
                                            !.caller = "manualMode"]) >>
    /\ UNCHANGED <<config, env, isRunning, cronJob, liveJobs, clsVars, guardVars>>

NextManual ==
    \/ ManualMode
    \/ \E r \in RunIds : Launch(r)
    \/ \E r \in RunIds : NewPage(r)
    \/ \E r \in RunIds : ConsoleEvent(r)
    \/ \E r \in RunIds : NavAttemptSettles(r)
    \/ \E r \in RunIds : NavSleepDone(r)
    \/ \E r \in RunIds : NavTimerFires(r)
    \/ \E r \in RunIds : NavHandleError(r)
    \/ \E r \in RunIds : StartGame(r)
    \/ \E r \in RunIds : Advance(r)
    \/ \E r \in RunIds : Choose(r)
    \/ \E r \in RunIds : Fallback(r)
    \/ \E r \in RunIds : Check(r)
    \/ \E r \in RunIds : Settle(r)
    \/ \E r \in RunIds : ClosePage(r)
    \/ \E r \in RunIds : CloseBrowser(r)

SpecManual == InitRun /\ [][NextManual]_vars

-----------------------------------------------------------------------------
(* SpecRounds: one run, requested manually, under configurations with up   *)
(* to MaxRounds rounds and several choice patterns, against a page that    *)
(* emits up to MaxRounds console events.                                   *)

Patterns == { <<"left", "right">>, <<"right", "left", "left">> }

RoundConfigs ==
    [ maxRetries            : {1},
      continueOnMinorErrors : {FALSE},
      maxScenarios          : 1..MaxRounds,
      strategy              : {"pattern"},
      pattern               : Patterns,
      enabled               : {FALSE} ]

InitRounds ==
    /\ config \in RoundConfigs
    /\ env = [errors |-> {UnknownError}, evidence |-> MaxRounds]
    /\ isRunning = FALSE
    /\ cronJob = 0
    /\ liveJobs = {}
    /\ runs = <<>>
    /\ lastCall = NoCall
    /\ exitCode = <<>>
    /\ ClsIdle
    /\ GuardIdle

SpecRounds == InitRounds /\ [][NextRun]_vars

-----------------------------------------------------------------------------
(* SpecLive: runs requested through Scheduler.runManual, where one awaited *)
(* page call of a run may never settle.  Timers fire and every other       *)
(* pending call settles: each run's steps are taken under weak fairness.   *)

LiveConfigs ==
    [ maxRetries            : {1},
      continueOnMinorErrors : BOOLEAN,
      maxScenarios          : {1},
      strategy              : {"pattern"},
      pattern               : { <<"left", "right">> },
      enabled               : {FALSE} ]

InitLive ==
    /\ config \in LiveConfigs
    /\ env = [errors |-> {MinorError}, evidence |-> 1]
    /\ isRunning = FALSE
    /\ cronJob = 0
    /\ liveJobs = {}
    /\ runs = <<>>
    /\ lastCall = NoCall
    /\ exitCode = <<>>
    /\ ClsIdle
    /\ GuardIdle

\* the awaited calls made outside the guard: page.click('body') at lines 79,
\* 167 and 190, page.mouse.click at lines 183-185
UnguardedCalls == {"wake", "advance", "choose", "fallback"}

Hung(run) == run.pc = "hung" \/ run.nav.phase = "hung"

\* The promise of the call run r is awaiting never settles: an unguarded
\* click leaves playGame suspended for good; a navigation attempt leaves the
\* retry loop suspended, with withTimeout's timer still armed.
Hang(r) ==
    /\ ~Hung(runs[r])
    /\ \/ /\ runs[r].pc \in UnguardedCalls
          /\ Step(r, [runs[r] EXCEPT !.pc = "hung"])
       \/ /\ runs[r].pc = "nav"
          /\ runs[r].nav.phase = "attempt"
          /\ Step(r, [runs[r] EXCEPT !.nav.phase = "hung"])

\* the steps of run r
RunStep(r) ==
    /\ r \in RunIds
    /\ \/ Launch(r)
       \/ NewPage(r)
       \/ ConsoleEvent(r)
       \/ NavAttemptSettles(r)
       \/ NavSleepDone(r)
       \/ NavTimerFires(r)
       \/ NavHandleError(r)
       \/ StartGame(r)
       \/ Advance(r)
       \/ Choose(r)
       \/ Fallback(r)
       \/ Check(r)
       \/ Settle(r)
       \/ ClosePage(r)
       \/ CloseBrowser(r)

NextLive ==
    \/ RunManual
    \/ \E r \in RunIds : Hang(r)
    \/ \E r \in RunIds : RunStep(r)

SpecLive ==
    /\ InitLive
    /\ [][NextLive]_vars
    /\ \A r \in 1..MaxRuns : WF_vars(RunStep(r))

-----------------------------------------------------------------------------
(* SpecPair: two GamePlayers in two processes, run 1 configured with       *)
(* continueOnMinorErrors off and run 2 with it on, everything else equal.  *)
(* env.script fixes what each collaborator call does, so that both runs    *)
(* meet the same outcomes and errors in the same order.                    *)

NavOk == [ok |-> TRUE, val |-> NavValue]

\* how the attempts of the navigation operation end (maxRetries is 1)
NavScripts ==
    { << NavOk >> } \cup
    { << [ok |-> FALSE, val |-> e], o >> :
        e \in OperationErrors,
        o \in { NavOk } \cup { [ok |-> FALSE, val |-> e2] : e2 \in OperationErrors } }

\* One script.  init: how init ends; nav: how the navigation attempts end;
\* timerAt: the attempt during which withTimeout's timer fires (0: it does
\* not fire before the guard has its result); wake, advance, choose,
\* fallback, closePage, closeBrowser: whether that call succeeds; err: the
\* error a failing call outside the guard raises; eventAt: the step of the
\* round during which the page emits its console event.  The parts of a
\* script a run cannot reach are kept at one value.
PairScripts ==
    { s \in [ init         : {"ok", "launchFails", "newPageFails"},
              nav          : NavScripts,
              timerAt      : 0..2,
              wake         : BOOLEAN,
              advance      : BOOLEAN,
              choose       : BOOLEAN,
              fallback     : BOOLEAN,
              closePage    : BOOLEAN,
              closeBrowser : BOOLEAN,
              err          : {MinorError, FatalError},
              eventAt      : {"never", "choose", "check"} ] :
        LET plainNav == s.nav = << NavOk >> /\ s.timerAt = 0
            rounds   == s.init = "ok" /\ plainNav IN
        /\ s.init # "ok" => plainNav /\ s.closePage
        /\ s.init = "launchFails" => s.closeBrowser
        /\ ~rounds => /\ s.wake /\ s.advance /\ s.choose /\ s.fallback
                      /\ s.eventAt = "never"
        /\ rounds => s.closePage /\ s.closeBrowser
        /\ (s.init = "ok" /\ s.wake) => s.err = MinorError
        /\ ~s.advance => s.choose /\ s.eventAt = "never"
        /\ s.choose => s.fallback }

PairConfig ==
    [ maxRetries            |-> 1,
      continueOnMinorErrors |-> FALSE,
      maxScenarios          |-> 1,
      strategy              |-> "pattern",
      pattern               |-> <<"left", "right">>,
      enabled               |-> FALSE ]

\* config.errorHandling.continueOnMinorErrors of run r
FlagOf(r) == r = 2

InitPair ==
    /\ config = PairConfig
    /\ \E s \in PairScripts :
         env = [errors |-> OperationErrors, evidence |-> 1, script |-> s]
    /\ isRunning = FALSE
    /\ cronJob = 0
    /\ liveJobs = {}
    /\ runs = <<>>
    /\ lastCall = NoCall
    /\ exitCode = <<>>
    /\ ClsIdle
    /\ GuardIdle

\* playGame is called on both GamePlayers
PairStart ==
    /\ runs = <<>>
    /\ runs' = << StartPlayGame(NewGamePlayer), StartPlayGame(NewGamePlayer) >>
    /\ lastCall' = [op |-> "manual", ret |-> "pending", how |-> "accepted"]
    /\ UNCHANGED <<config, env, exitCode, isRunning, cronJob, liveJobs, clsVars, guardVars>>

PairLaunch(r) ==
    /\ Launch(r)
    /\ runs'[r].browser <=> env.script.init # "launchFails"
    /\ runs'[r].initError \in { <<>>, env.script.err }

PairNewPage(r) ==
    /\ NewPage(r)
    /\ runs'[r].page <=> env.script.init = "ok"
    /\ runs'[r].initError \in { <<>>, env.script.err }

\* the page emits its console event during the step the script names
PairConsoleEvent(r) ==
    /\ runs[r].pc = env.script.eventAt
    /\ ConsoleEvent(r)

EventSeen(r, pc) == env.script.eventAt = pc => runs[r].gameStats = 1

\* withTimeout's timer fires during the attempt the script names
TimerDue(run) ==
    /\ TimerCanFire(run.nav)
    /\ run.nav.phase = "attempt"
    /\ env.script.timerAt = Len(run.nav.outcomes) + 1

PairNavAttemptSettles(r) ==
    /\ ~TimerDue(runs[r])
    /\ NavAttemptSettles(r)
    /\ LET o == runs'[r].nav.outcomes IN
       /\ Len(o) <= Len(env.script.nav)
       /\ o[Len(o)] = env.script.nav[Len(o)]

PairNavTimerFires(r) ==
    /\ TimerDue(runs[r])
    /\ NavTimerFires(r)

\* safeExecute's catch block under run r's own flag
PairNavHandleError(r) ==
    /\ Handling(runs[r].nav)
    /\ Step(r, AfterNavigation(
                 [runs[r] EXCEPT !.nav = HandleErrorDone(@, FlagOf(r))]))

PairStartGame(r) ==
    /\ StartGame(r)
    /\ runs'[r].wakeError = IF env.script.wake THEN <<>> ELSE env.script.err

PairAdvance(r) ==
    /\ Advance(r)
    /\ runs'[r].unrecovered <=> ~env.script.advance

PairChoose(r) ==
    /\ EventSeen(r, "choose")
    /\ Choose(r)
    /\ runs'[r].clickThrew <=> ~env.script.choose

PairFallback(r) ==
    /\ Fallback(r)
    /\ runs'[r].unrecovered <=> ~env.script.fallback

PairCheck(r) ==
    /\ EventSeen(r, "check")
    /\ Check(r)

PairClosePage(r) ==
    /\ ClosePage(r)
    /\ runs'[r].pageClose = "ok" <=> env.script.closePage

PairCloseBrowser(r) ==
    /\ CloseBrowser(r)
    /\ runs'[r].browserClose = "ok" <=> env.script.closeBrowser

NextPair ==
    \/ PairStart
    \/ \E r \in RunIds : PairLaunch(r)
    \/ \E r \in RunIds : PairNewPage(r)
    \/ \E r \in RunIds : PairConsoleEvent(r)
    \/ \E r \in RunIds : PairNavAttemptSettles(r)
    \/ \E r \in RunIds : NavSleepDone(r)
    \/ \E r \in RunIds : PairNavTimerFires(r)
    \/ \E r \in RunIds : PairNavHandleError(r)
    \/ \E r \in RunIds : PairStartGame(r)
    \/ \E r \in RunIds : PairAdvance(r)
    \/ \E r \in RunIds : PairChoose(r)
    \/ \E r \in RunIds : PairFallback(r)
    \/ \E r \in RunIds : PairCheck(r)
    \/ \E r \in RunIds : Settle(r)
    \/ \E r \in RunIds : PairClosePage(r)
    \/ \E r \in RunIds : PairCloseBrowser(r)

SpecPair == InitPair /\ [][NextPair]_vars

-----------------------------------------------------------------------------
(* SpecClassify: shouldContinue applied to every message of up to          *)
(* MaxMsgLen fragments, under both values of continueOnMinorErrors.        *)

RECURSIVE SeqsUpTo(_, _)
SeqsUpTo(S, n) ==
    IF n = 0 THEN { <<>> }
    ELSE LET shorter == SeqsUpTo(S, n - 1) IN
         shorter \cup { Append(m, f) : m \in shorter, f \in S }

Messages == SeqsUpTo(Fragments, MaxMsgLen)

InitClassify ==
    /\ clsMsg \in Messages
    /\ clsFlag \in BOOLEAN
    /\ clsOut = "none"
    /\ GuardIdle
    /\ SchedIdle

Classify ==
    /\ clsOut = "none"
    /\ clsOut' = IF ShouldContinue(clsFlag, clsMsg) THEN "continue" ELSE "abort"
    /\ UNCHANGED <<clsMsg, clsFlag, guardVars, schedVars>>

NextClassify == Classify

SpecClassify == InitClassify /\ [][NextClassify]_vars

-----------------------------------------------------------------------------
(* SpecGuard: one call of safeExecute(operation, context) or of            *)
(* retryWithBackoff(operation, context, maxRetries) on an operation whose  *)
(* behaviour on each attempt is given by a script.                         *)

ScriptLen == MaxRetries + 1

Scripts == [1..ScriptLen -> Outcomes]

Calls ==
    { [entry |-> "safeExecute", maxRetries |-> <<>>, script |-> sc] :
        sc \in Scripts } \cup
    { [entry |-> "retryWithBackoff", maxRetries |-> mr, script |-> sc] :
        mr \in { <<>> } \cup { <<n>> : n \in 0..MaxRetries }, sc \in Scripts }

InitGuard ==
    /\ gCfg \in [maxRetries : 0..MaxRetries, continueOnMinorErrors : BOOLEAN]
    /\ gCall = [entry |-> "none", maxRetries |-> <<>>, script |-> <<>>]
    /\ guard = IdleGuard
    /\ ClsIdle
    /\ SchedIdle

GuardCall ==
    /\ guard.phase = "idle"
    /\ \E c \in Calls :
        /\ gCall' = c
        /\ guard' = GuardStart(c.entry, c.maxRetries, gCfg.maxRetries)
    /\ UNCHANGED <<gCfg, clsVars, schedVars>>

GuardAttemptSettles ==
    /\ guard.phase = "attempt"
    /\ guard' = AttemptSettles(guard, gCall.script[guard.attempt])
    /\ UNCHANGED <<gCfg, gCall, clsVars, schedVars>>

GuardSleepDone ==
    /\ guard.phase = "sleep"
    /\ guard' = SleepDone(guard)
    /\ UNCHANGED <<gCfg, gCall, clsVars, schedVars>>

GuardTimerFires ==
    /\ TimerCanFire(guard)
    /\ guard' = TimerFires(guard)
    /\ UNCHANGED <<gCfg, gCall, clsVars, schedVars>>

GuardHandleError ==
    /\ Handling(guard)
    /\ guard' = HandleErrorDone(guard, gCfg.continueOnMinorErrors)
    /\ UNCHANGED <<gCfg, gCall, clsVars, schedVars>>

NextGuard ==
    \/ GuardCall
    \/ GuardAttemptSettles
    \/ GuardSleepDone
    \/ GuardTimerFires
    \/ GuardHandleError

SpecGuard == InitGuard /\ [][NextGuard]_vars

-----------------------------------------------------------------------------
(* Properties of the Execution Guard (checked under SpecGuard)             *)

\* the retry bound the caller asked for: the argument, else the configuration
RequestedRetries ==
    IF gCall.maxRetries = <<>> THEN gCfg.maxRetries ELSE gCall.maxRetries[1]

\* the first attempt on which the scripted operation succeeds, 0 if none
FirstSuccess(script) ==
    IF \E i \in DOMAIN script : script[i].ok
    THEN CHOOSE i \in DOMAIN script :
            script[i].ok /\ \A j \in 1..(i - 1) : ~script[j].ok
    ELSE 0

AllFail(script, n) == \A i \in 1..n : ~script[i].ok

\* C4: for every retry bound r and every k in 1..r+1, an operation that
\* fails on its first k-1 attempts and succeeds on attempt k makes the guard
\* return that attempt's value, without raising, after exactly k
\* invocations, and no attempt is made after the first success.
C4_GuardReturnsFirstSuccess ==
    guard.phase # "idle" =>
        LET k == FirstSuccess(gCall.script) IN
        k \in 1..(RequestedRetries + 1) =>
            /\ guard.invocations <= k
            /\ guard.result.kind # "none" =>
                /\ guard.result = [kind |-> "value", val |-> gCall.script[k].val]
                /\ guard.invocations = k

\* The same statement of retryWithBackoff's own result (what it returns to
\* withTimeout's race or to a direct caller): this part holds.
RetryLoopReturnsFirstSuccess ==
    guard.phase # "idle" =>
        LET k == FirstSuccess(gCall.script) IN
        k \in 1..(RequestedRetries + 1) =>
            /\ guard.invocations <= k
            /\ guard.loop.kind # "none" =>
                /\ guard.loop = [kind |-> "value", val |-> gCall.script[k].val]
                /\ guard.invocations = k

\* C5: for every configured maxRetries = r (r = 0 included), a step that
\* fails on every attempt makes the guard raise to its caller after exactly
\* r+1 invocations, and the error raised is the last attempt's error.
C5_GuardRaisesAfterAllAttempts ==
    (guard.phase # "idle" /\ gCall.maxRetries = <<>>) =>
        LET r == gCfg.maxRetries IN
        AllFail(gCall.script, r + 1) =>
            /\ guard.invocations <= r + 1
            /\ guard.result.kind # "none" =>
                /\ guard.result = [kind |-> "raised", val |-> gCall.script[r + 1].val]
                /\ guard.invocations = r + 1

\* The same statement of retryWithBackoff's own result: this part holds.
RetryLoopRaisesAfterAllAttempts ==
    (guard.phase # "idle" /\ gCall.maxRetries = <<>>) =>
        LET r == gCfg.maxRetries IN
        AllFail(gCall.script, r + 1) =>
            /\ guard.invocations <= r + 1
            /\ guard.loop.kind # "none" =>
                /\ guard.loop = [kind |-> "raised", val |-> gCall.script[r + 1].val]
                /\ guard.invocations = r + 1

\* C6: an explicit maxRetries argument bounds the retries for every value,
\* 0 included: the operation is invoked at most argument + 1 times.
C6_ExplicitMaxRetriesBounds ==
    (guard.phase # "idle" /\ gCall.maxRetries # <<>>) =>
        guard.invocations <= gCall.maxRetries[1] + 1

-----------------------------------------------------------------------------
(* Properties of the Failure Classifier (checked under SpecClassify)       *)

\* C7: shouldContinue aborts on every message that matches a fatal pattern,
\* for both values of continueOnMinorErrors, also when the message matches a
\* minor pattern as well.
C7_FatalAlwaysAborts ==
    (clsOut # "none" /\ IsFatal(clsMsg)) => clsOut = "abort"

C7_Witness ==
    /\ clsOut = "abort"
    /\ clsFlag
    /\ IsFatal(clsMsg)
    /\ IsMinor(clsMsg)

\* C8: shouldContinue aborts on every message that matches neither the fatal
\* nor the minor set, for both values of continueOnMinorErrors.
C8_UnknownAborts ==
    (clsOut # "none" /\ ~IsFatal(clsMsg) /\ ~IsMinor(clsMsg)) => clsOut = "abort"

C8_Witness ==
    /\ clsOut = "abort"
    /\ clsFlag
    /\ Len(clsMsg) > 0
    /\ ~IsFatal(clsMsg)
    /\ ~IsMinor(clsMsg)

\* C9: on a message that matches the minor set and not the fatal set,
\* shouldContinue continues when continueOnMinorErrors is enabled and aborts
\* when it is disabled.
C9_MinorFollowsFlag ==
    (clsOut # "none" /\ IsMinor(clsMsg) /\ ~IsFatal(clsMsg)) =>
        clsOut = IF clsFlag THEN "continue" ELSE "abort"

C9_Witness ==
    /\ clsOut = "continue"
    /\ clsFlag
    /\ IsMinor(clsMsg)
    /\ ~IsFatal(clsMsg)

-----------------------------------------------------------------------------
(* Properties of the Run Coordinator (checked under Spec)                  *)

RunsInProgress == { r \in RunIds : InProgress(r) }

\* C1: for one Scheduler and any interleaving of cron fires and manual
\* requests, at most one playGame execution is in progress at any time.
C1_SingleFlight == Cardinality(RunsInProgress) <= 1

C1_Witness ==
    /\ Len(runs) = 2
    /\ ~InProgress(1)
    /\ InProgress(2)
    /\ lastCall.how = "skipped"

\* C2: isRunning is true exactly while an accepted runGame call has not
\* finished; it is false again after every exit route (verdict true, verdict
\* false, the GamePlayer constructor threw).
C2_FlagHeldExactlyDuringRun == isRunning <=> (RunsInProgress # {})

C2_Witness ==
    /\ Len(runs) = 1
    /\ runs[1].pc = "done"
    /\ runs[1].verdict = "true"
    /\ lastCall.how = "threw"
    /\ ~isRunning

\* C3: a runGame call made while isRunning is true returns false and changes
\* nothing: no run is started, isRunning stays true, the timer handle and
\* the registered jobs are unchanged; and a run is only ever started by a
\* call that found isRunning false (a dropped trigger is not queued).
C3_DroppedTriggerIsNoOp ==
    [][ /\ (isRunning /\ lastCall'.op \in {"cron", "manual"}) =>
            /\ lastCall'.ret = "false"
            /\ lastCall'.how = "skipped"
            /\ runs' = runs
            /\ isRunning'
            /\ cronJob' = cronJob
            /\ liveJobs' = liveJobs
        /\ Len(runs') > Len(runs) =>
            /\ ~isRunning
            /\ lastCall'.how = "accepted"
            /\ Len(runs') = Len(runs) + 1 ]_vars

C3_Witness ==
    /\ lastCall = [op |-> "cron", ret |-> "false", how |-> "skipped"]
    /\ isRunning
    /\ Len(runs) = 1
    /\ runs[1].pc = "choose"

-----------------------------------------------------------------------------
(* Properties of the Session Runner (checked under SpecRun)                *)

\* every attempt of the navigation step was made and failed
NavExhausted(run) ==
    /\ Len(run.nav.outcomes) = config.maxRetries + 1
    /\ \A i \in DOMAIN run.nav.outcomes : ~run.nav.outcomes[i].ok

RoundPcs == {"advance", "choose", "fallback", "check", "settle"}

\* C10: if the navigation step fails on all maxRetries+1 attempts, no round
\* interaction is ever performed, playGame's verdict is false, cleanup runs
\* and the logs are flushed, whatever the classifier says about the error.
C10_NavigationFailureAborts ==
    \A r \in RunIds :
        NavExhausted(runs[r]) =>
            /\ runs[r].pc \notin RoundPcs \cup {"wake"}
            /\ runs[r].roundSteps = 0
            /\ runs[r].pc = "done" =>
                /\ runs[r].verdict = "false"
                /\ runs[r].pageClose \in {"ok", "threw"}
                /\ runs[r].finalized = 1

C10_Witness ==
    /\ Len(runs) = 1
    /\ runs[1].pc = "done"
    /\ NavExhausted(runs[1])
    /\ runs[1].nav.outcomes[1].val = MinorError
    /\ runs[1].nav.result.kind = "null"
    /\ config.continueOnMinorErrors
    /\ config.maxRetries = 1
    /\ runs[1].verdict = "false"
    /\ runs[1].finalized = 1

\* no call made by the steps of the run before its cleanup has thrown
NoStepThrew(run) ==
    /\ run.initError = <<>>
    /\ run.wakeError = <<>>
    /\ ~run.clickThrew
    /\ run.nav.timer # "fired"
    /\ \A i \in DOMAIN run.nav.outcomes : run.nav.outcomes[i].ok

CleanupPcs == {"closePage", "closeBrowser", "done"}

\* C11: on every exit route of playGame the release of the acquired
\* resources has been attempted and logger.finalize has run exactly once
\* when playGame returns, also when page.close or browser.close threw; the
\* flush never runs twice and never before the release.
C11_CleanupOnEveryExit ==
    \A r \in RunIds :
        /\ runs[r].finalized <= 1
        /\ runs[r].finalized = 1 => runs[r].pc = "done"
        /\ runs[r].pc = "done" =>
            /\ runs[r].finalized = 1
            /\ runs[r].returned # <<>>
            /\ runs[r].page => runs[r].pageClose \in {"ok", "threw"}
            /\ (runs[r].browser /\ runs[r].pageClose # "threw") =>
                    runs[r].browserClose \in {"ok", "threw"}

C11_Witness ==
    /\ Len(runs) = 1
    /\ runs[1].pc = "done"
    /\ runs[1].verdict = "true"
    /\ runs[1].pageClose = "threw"
    /\ runs[1].finalized = 1

\* C16: puppeteer.launch is called exactly once per run, and when init
\* fails (launch or newPage threw, whatever the message and the value of
\* continueOnMinorErrors) no navigation attempt, wake-up or round follows
\* and the verdict is false.
C16_InitFailureIsFatal ==
    \A r \in RunIds :
        /\ runs[r].launches <= 1
        /\ runs[r].initError # <<>> =>
            /\ runs[r].nav = IdleGuard
            /\ runs[r].wakeError = <<>>
            /\ runs[r].scenarioCount = 0
            /\ runs[r].roundSteps = 0
            /\ runs[r].pc \in {"closeBrowser", "done"}
            /\ runs[r].pc = "done" => runs[r].verdict = "false"

C16_Witness ==
    /\ Len(runs) = 1
    /\ runs[1].pc = "done"
    /\ runs[1].initError = MinorError
    /\ config.continueOnMinorErrors
    /\ runs[1].launches = 1
    /\ runs[1].verdict = "false"

\* C17: whatever error the wake-up interaction throws (fatal patterns
\* included), startGame reports success and the run enters its first round.
C17_WakeErrorNeverAborts ==
    \A r \in RunIds :
        /\ runs[r].pc = "wake" => runs[r].wakeError = <<>>
        /\ runs[r].wakeError # <<>> =>
            /\ StartGameResult(runs[r].wakeError)
            /\ runs[r].scenarioCount >= 1
            /\ (runs[r].pc = "done" /\ ~runs[r].clickThrew) =>
                    runs[r].verdict = "true"

C17_Witness ==
    /\ Len(runs) = 1
    /\ runs[1].pc = "done"
    /\ runs[1].wakeError = FatalError
    /\ runs[1].scenarioCount = config.maxScenarios
    /\ runs[1].verdict = "true"

\* C20: the value playGame returns carries the success verdict and the
\* number of rounds counted as verified in that run.
C20_ReturnCarriesVerifiedCount ==
    \A r \in RunIds :
        runs[r].returned # <<>> =>
            LET v == runs[r].returned[1] IN
            /\ "success" \in DOMAIN v
            /\ v.success = runs[r].success
            /\ "verifiedRounds" \in DOMAIN v
            /\ v.verifiedRounds = runs[r].actualScenariosPlayed

-----------------------------------------------------------------------------
(* Properties of the rounds (checked under SpecRounds)                     *)

\* C12: in a run in which no step throws and gameStats grows during every
\* round, every round is counted, and the run ends with verdict true and
\* maxScenarios counted rounds.
C12_AllRoundsVerified ==
    \A r \in RunIds :
        (NoStepThrew(runs[r]) /\ \A k \in DOMAIN runs[r].grew : runs[r].grew[k]) =>
            /\ runs[r].actualScenariosPlayed = Len(runs[r].verified)
            /\ runs[r].pc = "done" =>
                /\ runs[r].verdict = "true"
                /\ runs[r].actualScenariosPlayed = config.maxScenarios

C12_Witness ==
    /\ Len(runs) = 1
    /\ config.maxScenarios = 3
    /\ runs[1].pc = "done"
    /\ NoStepThrew(runs[1])
    /\ runs[1].grew = <<TRUE, TRUE, TRUE>>
    /\ runs[1].actualScenariosPlayed = 3
    /\ runs[1].verdict = "true"

\* C13: a run in which no step throws performs all maxScenarios rounds and
\* returns true whatever console events arrive and however many rounds are
\* counted; a round that is not counted does not end the loop.
C13_VerdictIgnoresVerification ==
    \A r \in RunIds :
        NoStepThrew(runs[r]) =>
            /\ runs[r].pc \in CleanupPcs =>
                /\ Len(runs[r].verified) = config.maxScenarios
                /\ runs[r].success
            /\ runs[r].pc = "done" => runs[r].verdict = "true"

C13_Witness ==
    /\ Len(runs) = 1
    /\ config.maxScenarios = 2
    /\ runs[1].pc = "done"
    /\ NoStepThrew(runs[1])
    /\ runs[1].gameStats = 0
    /\ runs[1].verified = <<FALSE, FALSE>>
    /\ runs[1].verdict = "true"

\* C14: with the pattern strategy and a non-empty pattern p, the direction
\* chosen in round k is p[(k-1) mod length(p)] (0-based), and choiceIndex
\* advances by exactly one per completed round.
C14_PatternRoundRobin ==
    \A r \in RunIds :
        /\ runs[r].choiceIndex = Len(runs[r].verified)
        /\ \A k \in DOMAIN runs[r].choices :
              runs[r].choices[k].dir =
                  config.pattern[((k - 1) % Len(config.pattern)) + 1]

C14_Witness ==
    /\ Len(runs) = 1
    /\ config.pattern = <<"left", "right">>
    /\ config.maxScenarios = 4
    /\ runs[1].pc = "done"
    /\ Len(runs[1].choices) = 4
    /\ [k \in 1..4 |-> runs[1].choices[k].dir] = <<"left", "right", "left", "right">>

-----------------------------------------------------------------------------
(* Further properties of the Run Coordinator (checked under Spec)          *)

\* C15: start() with scheduling disabled returns false and changes nothing
\* (no job is registered, cronJob stays null, isRunning and the runs are
\* unchanged); with scheduling enabled it registers a new job, keeps its
\* handle and returns true.
C15_StartRespectsEnabled ==
    [][ lastCall'.op = "start" =>
            /\ isRunning' = isRunning
            /\ runs' = runs
            /\ IF ~config.enabled
               THEN /\ lastCall'.ret = "false"
                    /\ cronJob' = 0 /\ cronJob = 0
                    /\ liveJobs' = {} /\ liveJobs = {}
               ELSE /\ lastCall'.ret = "true"
                    /\ cronJob' # 0
                    /\ cronJob' \notin liveJobs
                    /\ liveJobs' = liveJobs \cup {cronJob'} ]_vars

C15_Witness ==
    /\ lastCall = [op |-> "start", ret |-> "false", how |-> "disabled"]
    /\ ~config.enabled
    /\ isRunning
    /\ cronJob = 0
    /\ liveJobs = {}

\* C18: stop() leaves isRunning and every run unchanged, and isRunning only
\* goes back to false in the step in which a run's playGame returns.
C18_StopDoesNotInterrupt ==
    [][ /\ lastCall'.op = "stop" =>
            /\ isRunning' = isRunning
            /\ runs' = runs
        /\ (isRunning /\ ~isRunning') =>
            \E r \in RunIds : runs[r].pc # "done" /\ runs'[r].pc = "done" ]_vars

C18_Witness ==
    /\ lastCall.op = "stop"
    /\ config.enabled
    /\ cronJob = 0
    /\ isRunning
    /\ Len(runs) = 1
    /\ runs[1].pc = "choose"

\* Scheduler.runManual is subject to the guard of runGame: this holds.
SchedulerRunManualIsGuarded ==
    [][ lastCall'.op = "manual" =>
            IF isRunning
            THEN lastCall'.how = "skipped" /\ runs' = runs
            ELSE lastCall'.how = "accepted" => isRunning' ]_vars

-----------------------------------------------------------------------------
(* Properties of manual invocation (checked under SpecManual)              *)

\* C19: a manual invocation never starts a Session Runner without setting
\* isRunning first, and starts none while isRunning is true.
C19_ManualRunIsGuarded ==
    [][ Len(runs') > Len(runs) => (~isRunning /\ isRunning') ]_vars

-----------------------------------------------------------------------------
(* Further properties of the Execution Guard (checked under SpecGuard)     *)

\* the context string passed by navigateToGame: 'Navigate to game'
GuardContext == <<"Navigate", "to", "game">>

AttemptText(n) ==
    CASE n = 1 -> "1" [] n = 2 -> "2" [] n = 3 -> "3" [] n = 4 -> "4"
      [] OTHER -> "many"

\* an error message that names the context, the number of attempts and the
\* message of the original error
Annotated(context, attempts, message) ==
    context \o <<"failed", "after", AttemptText(attempts), "attempts">> \o message

\* C21: once an attempt has raised an error that matches the fatal set or
\* neither set, the guard makes no further attempt, whatever the retry
\* budget that remains.
C21_FatalStopsRetries ==
    \A i \in DOMAIN guard.outcomes :
        LET o == guard.outcomes[i] IN
        (~o.ok /\ (IsFatal(o.val) \/ ~IsMinor(o.val))) =>
            /\ guard.invocations <= i
            /\ guard.phase # "sleep"

\* C24: the timeout applies to each attempt: when the timer fires, the
\* attempt is recorded as failed with the timeout error, and the guard
\* gives up with that error only once the retry budget is used up.
C24_TimeoutPerAttempt ==
    guard.timer = "fired" =>
        /\ \E i \in DOMAIN guard.outcomes :
              guard.outcomes[i] = [ok |-> FALSE, val |-> TimeoutError]
        /\ guard.race = [kind |-> "raised", val |-> TimeoutError] =>
              Len(guard.outcomes) >= guard.retries + 1

\* C26: the error raised when all attempts are exhausted is annotated with
\* the context, the attempt count and the original message; it is not the
\* bare error of the operation.
C26_RaisedErrorIsAnnotated ==
    (guard.phase = "threw" /\ guard.loop.kind = "raised") =>
        /\ guard.loop.val # guard.lastError
        /\ guard.loop.val =
              Annotated(GuardContext, guard.retries + 1, guard.lastError)

\* C27: the retry loop waits once after each failed attempt that is followed
\* by another attempt and at no other time: a wait is either in progress
\* after the latest attempt, or the waits made are one fewer than the
\* attempts; a loop that has ended after n attempts waited n-1 times.
C27_OneDelayBetweenAttempts ==
    guard.phase # "idle" =>
        /\ guard.sleeps = IF guard.phase = "sleep" THEN guard.invocations
                          ELSE guard.invocations - 1
        /\ guard.phase = "sleep" =>
              /\ ~guard.outcomes[Len(guard.outcomes)].ok
              /\ guard.invocations <= guard.retries

C27_Witness ==
    /\ guard.phase = "threw"
    /\ guard.retries = 2
    /\ guard.invocations = 3
    /\ guard.sleeps = 2

-----------------------------------------------------------------------------
(* Further properties of manual invocation (checked under SpecManual)      *)

\* C22: in manual mode the process exits with status 0 exactly when
\* playGame returned true, and with status 1 when it returned false or the
\* GamePlayer could not be constructed; it exits as soon as the run ends.
C22_ExitStatusFollowsVerdict ==
    /\ (runs # <<>> /\ runs[1].pc = "done") =>
          exitCode = IF runs[1].verdict = "true" THEN <<0>> ELSE <<1>>
    /\ exitCode = <<0>> =>
          (runs # <<>> /\ runs[1].pc = "done" /\ runs[1].verdict = "true")
    /\ exitCode = <<1>> =>
          \/ runs = <<>>
          \/ runs[1].pc = "done" /\ runs[1].verdict = "false"
    /\ lastCall.how = "threw" => exitCode = <<1>>

C22_Witness ==
    /\ exitCode = <<0>>
    /\ Len(runs) = 1
    /\ runs[1].caller = "manualMode"
    /\ runs[1].verdict = "true"

-----------------------------------------------------------------------------
(* Further properties of the rounds (checked under SpecRounds)             *)

\* C23: a round is counted as verified if and only if gameStats.length at
\* the comparison exceeds gameStats.length at the beginning of that round.
C23_VerifiedIffGrewInRound ==
    \A r \in RunIds :
        \A k \in DOMAIN runs[r].verified :
            runs[r].verified[k] <=> runs[r].grew[k]

\* The direction that holds: a round during which gameStats grew is counted.
GrewImpliesVerified ==
    \A r \in RunIds :
        \A k \in DOMAIN runs[r].verified :
            runs[r].grew[k] => runs[r].verified[k]

\* C28: a click error that leaves playScenarios in round k (the advance
\* click threw, or the directional click and the fallback click both threw)
\* ends the run: round k is not completed, no later round is begun, the
\* verdict is false and cleanup runs.  A directional click that throws and
\* whose fallback click succeeds does not: the run completes all its rounds.
C28_OnlyUnrecoveredErrorStops ==
    \A r \in RunIds :
        /\ runs[r].unrecovered =>
            /\ runs[r].pc \in CleanupPcs
            /\ ~runs[r].success
            /\ Len(runs[r].verified) = runs[r].scenarioCount - 1
            /\ Len(runs[r].choices) <= runs[r].scenarioCount
            /\ runs[r].pc = "done" =>
                /\ runs[r].verdict = "false"
                /\ runs[r].finalized = 1
        /\ (runs[r].clickThrew /\ ~runs[r].unrecovered
                /\ runs[r].pc \in CleanupPcs) =>
            /\ Len(runs[r].verified) = config.maxScenarios
            /\ runs[r].success

C28_Witness ==
    /\ Len(runs) = 1
    /\ config.maxScenarios = 4
    /\ runs[1].pc = "done"
    /\ runs[1].unrecovered
    /\ runs[1].scenarioCount = 2
    /\ runs[1].roundSteps = 6
    /\ runs[1].verdict = "false"

-----------------------------------------------------------------------------
(* Further properties of the Session Runner (checked under SpecRun)        *)

\* C25: once the guard has given the navigation step's result to the run,
\* no further attempt of the navigation operation starts, and none is in
\* progress or waiting to be retried while the run is in cleanup or done.
C25_NoAttemptAfterGuardResult ==
    \A r \in RunIds :
        /\ runs[r].nav.late = 0
        /\ runs[r].pc \in CleanupPcs =>
              runs[r].nav.phase \notin {"attempt", "sleep"}

\* C30: a run that acquired a browser has attempted browser.close() when it
\* is done, on every exit route.
C30_BrowserCloseAlwaysAttempted ==
    \A r \in RunIds :
        (runs[r].pc = "done" /\ runs[r].browser) =>
            runs[r].browserClose \in {"ok", "threw"}

\* What holds: browser.close() is attempted unless page.close() threw.
BrowserCloseAttemptedUnlessPageCloseThrew ==
    \A r \in RunIds :
        (runs[r].pc = "done" /\ runs[r].browser /\ runs[r].pageClose # "threw") =>
            runs[r].browserClose \in {"ok", "threw"}

-----------------------------------------------------------------------------
(* Run state is per session (checked under Spec)                           *)

\* C29: every run accepted by the Scheduler starts with scenarioCount 0,
\* choiceIndex 0 and an empty gameStats, whatever earlier runs did; its
\* first direction is the first element of the pattern, and it counts no
\* more rounds than console events of its own.
C29_RunStateIsPerSession ==
    \A r \in RunIds :
        /\ runs[r].pc = "launch" =>
            /\ runs[r].scenarioCount = 0
            /\ runs[r].choiceIndex = 0
            /\ runs[r].gameStats = 0
            /\ runs[r].actualScenariosPlayed = 0
            /\ runs[r].choices = <<>>
        /\ runs[r].choices # <<>> => runs[r].choices[1].dir = config.pattern[1]
        /\ runs[r].actualScenariosPlayed <= runs[r].gameStats
        /\ runs[r].gameStats <= env.evidence

C29_Witness ==
    /\ Len(runs) = 2
    /\ runs[1].pc = "retired"
    /\ runs[2].pc = "done"
    /\ runs[2].choices # <<>>
    /\ runs[2].choices[1].dir = "left"
    /\ runs[2].verified = <<TRUE>>
    /\ runs[2].gameStats = 1

-----------------------------------------------------------------------------
(* Registered triggers (checked under Spec)                                *)

\* C32: at most one cron job is registered and live at a time, and after
\* stop() has returned none is left that can still fire runGame.
C32_AtMostOneLiveTrigger ==
    /\ Cardinality(liveJobs) <= 1
    /\ lastCall.op = "stop" => liveJobs = {}

\* What holds: the job whose handle the Scheduler keeps is live, and stop()
\* destroys that one.
StopDestroysKeptJob ==
    /\ cronJob # 0 => cronJob \in liveJobs
    /\ lastCall.op = "stop" => cronJob = 0

-----------------------------------------------------------------------------
(* The verified-round count (checked under SpecRounds)                     *)

\* C33: in every step of a run the counted rounds are at most the rounds
\* compared so far, at most maxScenarios and at most gameStats.length; the
\* count never decreases and grows by at most one per round.
C33_VerifiedCountBounds ==
    [][ \A r \in DOMAIN runs' :
          /\ runs'[r].actualScenariosPlayed <= Len(runs'[r].verified)
          /\ runs'[r].actualScenariosPlayed <= config.maxScenarios
          /\ runs'[r].actualScenariosPlayed <= runs'[r].gameStats
          /\ Len(runs'[r].verified) <= runs'[r].scenarioCount
          /\ r \in DOMAIN runs =>
                /\ runs'[r].actualScenariosPlayed >= runs[r].actualScenariosPlayed
                /\ runs'[r].actualScenariosPlayed - runs[r].actualScenariosPlayed
                      <= Len(runs'[r].verified) - Len(runs[r].verified)
                /\ Len(runs'[r].verified) - Len(runs[r].verified) <= 1 ]_vars

C33_Witness ==
    /\ Len(runs) = 1
    /\ runs[1].pc = "done"
    /\ runs[1].verified = <<TRUE, FALSE, TRUE>>
    /\ runs[1].actualScenariosPlayed = 2
    /\ runs[1].gameStats = 3

-----------------------------------------------------------------------------
(* Termination of runs (checked under SpecLive)                            *)

\* C31: every run the Scheduler accepted eventually reaches Done and
\* isRunning eventually becomes false again, even if one page call made
\* during the run never settles.
C31_RunsTerminate ==
    /\ isRunning ~> ~isRunning
    /\ \A r \in 1..MaxRuns :
          (r \in RunIds) ~> (r \in RunIds /\ ~InProgress(r))

\* What holds: a run ends and releases the guard unless one of its clicks
\* never settles; a navigation attempt that never settles is cut off by
\* the guard's timer.
RunsTerminateUnlessClickHangs ==
    /\ isRunning ~> (~isRunning \/ \E r \in RunIds : runs[r].pc = "hung")
    /\ \A r \in 1..MaxRuns :
          (r \in RunIds /\ runs[r].nav.phase = "hung")
             ~> (r \in RunIds /\ ~InProgress(r))

-----------------------------------------------------------------------------
(* Independence of continueOnMinorErrors (checked under SpecPair)          *)

\* the stages a finished run went through
Stages(run) ==
    [ connected  |-> run.page,
      navigated  |-> run.pc = "done" /\ run.nav.result.kind = "value",
      woken      |-> run.scenarioCount > 0 \/ run.success,
      iterating  |-> run.scenarioCount,
      steps      |-> run.roundSteps,
      verified   |-> run.verified,
      finalizing |-> << run.pageClose, run.browserClose >>,
      done       |-> run.finalized ]

====
